---- MODULE Spec2Model ----
(***************************************************************************)
(* Sudoku as graph colouring: the board (sudoku_board.py), the constraint  *)
(* graph built from it (graph.py), the two backtracking solvers            *)
(* (sudoku_solver.py) and the repeated-run driver (main.py).               *)
(***************************************************************************)
EXTENDS Integers, Sequences, FiniteSets, TLC

VARIABLES
    heap,             \* board objects: heap[ref] is the 9x9 grid of board `ref`
    cur,              \* the board object the running solve() was handed
    solver_type,      \* 'simple' or 'dsatur'
    run,              \* index i of the run_solver loop
    pc,               \* position of the solver
    stack,            \* frames of backtrack_solve / dsatur_backtrack
    ret,              \* value returned by the innermost finished call
    success,          \* value returned by solve()
    nodes_explored,   \* solver counter
    backtrack_count,  \* solver counter
    vertices,         \* graph.vertices: id -> Vertex record
    neighbors,        \* adjacency: id -> set of ids
    run_data,         \* what the first run left behind
    probe,            \* last is_valid_placement query and its answer
    original_grid     \* the stored board's snapshot taken at load time

vars == <<heap, cur, solver_type, run, pc, stack, ret, success, nodes_explored,
          backtrack_count, vertices, neighbors, run_data, probe, original_grid>>

----------------------------------------------------------------------------
(* Bounds of the model *)

\* number of cells of BlankOrder that may be blanked in the loaded puzzle
MaxBlanks == 10
\* number of cells of VariedCells whose given is varied in the loaded puzzle
NumVaried == 2
\* num_runs handed to run_solver
NumRuns == 2

----------------------------------------------------------------------------
(* The board *)

N == 9
Idx == 0..(N - 1)
Ids == 0..(N * N - 1)
Digits == 1..N

SolutionRows ==
    << <<8,3,1,7,2,5,4,6,9>>,
       <<4,7,9,1,8,6,3,2,5>>,
       <<2,6,5,4,3,9,8,7,1>>,
       <<3,8,7,6,4,1,9,5,2>>,
       <<5,1,2,3,9,7,6,4,8>>,
       <<6,9,4,2,5,8,7,1,3>>,
       <<9,4,6,5,1,3,2,8,7>>,
       <<7,5,3,8,6,2,1,9,4>>,
       <<1,2,8,9,7,4,5,3,6>> >>

\* cells (row*9+col) blanked in this order, the first n of them
BlankOrder == <<80, 53, 3, 4, 5, 48, 49, 50, 66, 68, 76, 6>>
\* cells whose given is kept, blanked or replaced by AltValue
VariedCells == <<67, 19, 57>>
AltValue == <<2, 7, 2>>

\* the grid load_from_string leaves for one puzzle text
Puzzle(n, f) ==
    [row \in Idx |-> [col \in Idx |->
        LET id == row * 9 + col IN
        IF \E i \in 1..NumVaried : VariedCells[i] = id
        THEN LET i == CHOOSE j \in 1..NumVaried : VariedCells[j] = id IN
             CASE f[i] = 0 -> 0
               [] f[i] = 1 -> SolutionRows[row + 1][col + 1]
               [] OTHER    -> AltValue[i]
        ELSE IF \E i \in 1..n : BlankOrder[i] = id
        THEN 0
        ELSE SolutionRows[row + 1][col + 1]]]

\* set_cell writing grid[col][row]
set_cell_transposed(g, row, col, value) == [g EXCEPT ![col][row] = value]

set_cell(g, row, col, value) == [g EXCEPT ![row][col] = value]

is_empty(g, row, col) == g[row][col] = 0

get_row_values(g, row) ==
    IF ~(0 <= row /\ row < 9) THEN {}
    ELSE {g[row][c] : c \in Idx} \ {0}

get_col_values(g, col) ==
    IF ~(0 <= col /\ col < 9) THEN {}
    ELSE {g[r][col] : r \in Idx} \ {0}

get_box_values(g, row, col) ==
    IF ~(0 <= row /\ row < 9 /\ 0 <= col /\ col < 9) THEN {}
    ELSE LET box_row == (row \div 3) * 3
             box_col == (col \div 3) * 3
         IN {g[r][c] : r \in box_row..(box_row + 2), c \in box_col..(box_col + 2)} \ {0}

\* is_valid_placement with the column check left out
is_valid_placement_skip_col(g, row, col, value) ==
    IF ~(0 <= row /\ row < 9 /\ 0 <= col /\ col < 9) THEN FALSE
    ELSE IF ~(1 <= value /\ value <= 9) THEN FALSE
    ELSE IF value \in get_row_values(g, row) THEN FALSE
    ELSE IF value \in get_box_values(g, row, col) THEN FALSE
    ELSE TRUE

is_valid_placement(g, row, col, value) ==
    IF ~(0 <= row /\ row < 9 /\ 0 <= col /\ col < 9) THEN FALSE
    ELSE IF ~(1 <= value /\ value <= 9) THEN FALSE
    ELSE IF value \in get_row_values(g, row) THEN FALSE
    ELSE IF value \in get_col_values(g, col) THEN FALSE
    ELSE IF value \in get_box_values(g, row, col) THEN FALSE
    ELSE TRUE

\* the inner loop of is_valid over the columns of one row, from col on: the
\* answer and the grid it leaves
RECURSIVE is_valid_cols(_, _, _)
is_valid_cols(g, row, col) ==
    IF col = N THEN [result |-> TRUE, grid |-> g]
    ELSE IF is_empty(g, row, col) THEN is_valid_cols(g, row, col + 1)
    ELSE LET value == g[row][col]
             cleared == [g EXCEPT ![row][col] = 0]
         IN IF ~is_valid_placement(cleared, row, col, value)
            THEN [result |-> FALSE, grid |-> [cleared EXCEPT ![row][col] = value]]
            ELSE is_valid_cols([cleared EXCEPT ![row][col] = value], row, col + 1)

\* the outer loop of is_valid, from row on
RECURSIVE is_valid_rows(_, _)
is_valid_rows(g, row) ==
    IF row = N THEN [result |-> TRUE, grid |-> g]
    ELSE LET r == is_valid_cols(g, row, 0)
         IN IF ~r.result THEN r ELSE is_valid_rows(r.grid, row + 1)

\* the inner loop with the restore of line 115 left out
RECURSIVE is_valid_cols_no_restore(_, _, _)
is_valid_cols_no_restore(g, row, col) ==
    IF col = N THEN [result |-> TRUE, grid |-> g]
    ELSE IF is_empty(g, row, col) THEN is_valid_cols_no_restore(g, row, col + 1)
    ELSE LET value == g[row][col]
             cleared == [g EXCEPT ![row][col] = 0]
         IN IF ~is_valid_placement(cleared, row, col, value)
            THEN [result |-> FALSE, grid |-> cleared]
            ELSE is_valid_cols_no_restore([cleared EXCEPT ![row][col] = value], row, col + 1)

RECURSIVE is_valid_rows_no_restore(_, _)
is_valid_rows_no_restore(g, row) ==
    IF row = N THEN [result |-> TRUE, grid |-> g]
    ELSE LET r == is_valid_cols_no_restore(g, row, 0)
         IN IF ~r.result THEN r ELSE is_valid_rows_no_restore(r.grid, row + 1)

\* is_valid that finds every board valid
is_valid_always(g) == [result |-> TRUE, grid |-> g]

\* is_valid with the temporary clearing of line 113 left out
is_valid_no_clear(g) ==
    [result |-> \A row \in Idx, col \in Idx :
                    is_empty(g, row, col) \/ is_valid_placement(g, row, col, g[row][col]),
     grid |-> g]

is_valid_no_restore(g) == is_valid_rows_no_restore(g, 0)

is_valid(g) == is_valid_rows(g, 0)

is_complete(g) == \A row \in Idx, col \in Idx : g[row][col] # 0

\* copy that hands back the board it was given
copy_alias(h, src) == [ref |-> src, heap |-> h]

\* copy(): a new board object whose grid is a row-by-row clone
copy(h, src) ==
    [ref |-> "copy",
     heap |-> [h EXCEPT !["copy"] = [row \in Idx |-> [col \in Idx |-> h[src][row][col]]]]]

----------------------------------------------------------------------------
(* The constraint graph *)

\* Vertex(vertex_id, value, row, col): uncoloured, full domain unless pre-filled
Vertex(vertex_id, value, row, col) ==
    [id |-> vertex_id, value |-> value, row |-> row, col |-> col,
     color |-> 0,
     domain |-> IF value # 0 THEN {} ELSE Digits,
     isFixed |-> value # 0,
     saturation |-> 0]

\* add_node on the adjacency map: a node already present is kept
add_node(nbrs, node_id) ==
    IF node_id \in DOMAIN nbrs THEN nbrs
    ELSE (node_id :> {}) @@ nbrs

\* add_edge: both endpoints record each other
add_edge(nbrs, src_node_id, dest_node_id) ==
    LET all_nodes == add_node(add_node(nbrs, src_node_id), dest_node_id)
    IN [all_nodes EXCEPT ![src_node_id] = @ \cup {dest_node_id},
                         ![dest_node_id] = @ \cup {src_node_id}]

\* the cells of the 3x3 block whose corner is (box_row, box_col), in loop order
box_cells(box_row, box_col) ==
    [k \in 1..9 |-> <<box_row + ((k - 1) \div 3), box_col + ((k - 1) % 3)>>]

\* edge_targets with the box corner computed without the multiplication by 3
edge_targets_bad_box(row, col) ==
    LET others == SelectSeq(box_cells(row \div 3, col \div 3),
                            LAMBDA p : p[1] # row \/ p[2] # col)
    IN [k \in 1..8 |-> row * 9 + (IF k - 1 < col THEN k - 1 ELSE k)]
       \o [k \in 1..8 |-> (IF k - 1 < row THEN k - 1 ELSE k) * 9 + col]
       \o [k \in 1..Len(others) |-> others[k][1] * 9 + others[k][2]]

\* the neighbour ids to_graph connects (row, col) to, in the order of its loops:
\* the row, the column, the box
edge_targets(row, col) ==
    LET others == SelectSeq(box_cells((row \div 3) * 3, (col \div 3) * 3),
                            LAMBDA p : p[1] # row \/ p[2] # col)
    IN [k \in 1..8 |-> row * 9 + (IF k - 1 < col THEN k - 1 ELSE k)]
       \o [k \in 1..8 |-> (IF k - 1 < row THEN k - 1 ELSE k) * 9 + col]
       \o [k \in 1..Len(others) |-> others[k][1] * 9 + others[k][2]]

\* the vertex to_graph makes of cell (row, col)
cell_vertex(g, row, col) ==
    LET value == g[row][col]
        vertex == Vertex(row * 9 + col, value, row, col)
    IN IF value # 0 THEN [vertex EXCEPT !.color = value] ELSE vertex

\* first pair of loops of to_graph: one vertex per cell
to_graph_vertices(g) == [id \in Ids |-> cell_vertex(g, id \div 9, id % 9)]

\* the add_edge calls of the second pair of loops, as <<vertex_id, neighbor_id>>
edge_calls ==
    UNION {{<<id, edge_targets(id \div 9, id % 9)[k]>> :
               k \in 1..Len(edge_targets(id \div 9, id % 9))} : id \in Ids}

\* second pair of loops of to_graph: neighbour sets only grow, so a vertex ends
\* with everything some add_edge call put into its set
to_graph_edges ==
    LET no_edges == [id \in Ids |-> {}]
    IN [v \in Ids |-> UNION {add_edge(no_edges, c[1], c[2])[v] : c \in edge_calls}]

to_graph(g) == [vertices |-> to_graph_vertices(g), neighbors |-> to_graph_edges]

\* colours held by the coloured neighbours of v
neighbor_colors(G, v) ==
    {G.vertices[n].color : n \in G.neighbors[v]} \ {0}

get_available_colors(G, v) == G.vertices[v].domain \ neighbor_colors(G, v)

\* uncoloured, non-fixed vertices in insertion order
get_uncolored_vertices(G) ==
    SelectSeq([k \in 1..(N * N) |-> k - 1],
              LAMBDA v : v \in DOMAIN G.vertices
                         /\ G.vertices[v].color = 0 /\ ~G.vertices[v].isFixed)

is_valid_coloring(G) ==
    \A v \in DOMAIN G.vertices :
        G.vertices[v].color # 0 =>
            \A n \in G.neighbors[v] : G.vertices[n].color # G.vertices[v].color

update_all_saturations(G) ==
    [G EXCEPT !.vertices =
        [v \in DOMAIN G.vertices |->
            [G.vertices[v] EXCEPT !.saturation = Cardinality(neighbor_colors(G, v))]]]

\* update_from_graph writing each colour at [col][row]
update_from_graph_transposed(g, G) ==
    [row \in Idx |-> [col \in Idx |->
        IF \E v \in DOMAIN G.vertices :
               /\ G.vertices[v].col = row /\ G.vertices[v].row = col
               /\ G.vertices[v].color # 0
        THEN LET v == CHOOSE w \in DOMAIN G.vertices :
                          /\ G.vertices[w].col = row /\ G.vertices[w].row = col
                          /\ G.vertices[w].color # 0
             IN G.vertices[v].color
        ELSE g[row][col]]]

\* the grid after update_from_graph
update_from_graph(g, G) ==
    [row \in Idx |-> [col \in Idx |->
        IF \E v \in DOMAIN G.vertices :
               /\ G.vertices[v].row = row /\ G.vertices[v].col = col
               /\ G.vertices[v].color # 0
        THEN LET v == CHOOSE w \in DOMAIN G.vertices :
                          /\ G.vertices[w].row = row /\ G.vertices[w].col = col
                          /\ G.vertices[w].color # 0
             IN G.vertices[v].color
        ELSE g[row][col]]]

----------------------------------------------------------------------------
(* SimpleSudokuSolver *)

Grid == heap[cur]

\* find_next_empty_cell scanning each row from its last column to its first
find_next_empty_cell_from_right(g) ==
    LET empties == {id \in Ids : is_empty(g, id \div 9, 8 - (id % 9))}
    IN IF empties = {} THEN <<>>
       ELSE LET id == CHOOSE i \in empties : \A j \in empties : i <= j
            IN <<id \div 9, 8 - (id % 9)>>

\* first empty cell in row-major order, as <<row, col>>; <<>> for None
find_next_empty_cell(g) ==
    LET empties == {id \in Ids : is_empty(g, id \div 9, id % 9)}
    IN IF empties = {} THEN <<>>
       ELSE LET id == CHOOSE i \in empties : \A j \in empties : i <= j
            IN <<id \div 9, id % 9>>

\* nodes_explored counted before looking whether a cell is empty
explored_at_entry_early(n, empty_cell) == n + 1

\* nodes_explored after lines 42-47: a call that finds no empty cell counts nothing
explored_at_entry(n, empty_cell) == IF empty_cell = <<>> THEN n ELSE n + 1

\* run_solver, lines 57-61, and solve up to the call of backtrack_solve
SimpleSolve ==
    /\ pc = "idle" /\ solver_type = "simple" /\ run < NumRuns
    /\ LET c == copy(heap, "stored")
           v == is_valid(c.heap[c.ref])
       IN /\ cur' = c.ref
          /\ heap' = [c.heap EXCEPT ![c.ref] = v.grid]
          /\ nodes_explored' = 0
          /\ backtrack_count' = 0
          /\ stack' = <<>>
          /\ IF ~v.result
             THEN /\ pc' = "done" /\ success' = FALSE
             ELSE /\ pc' = "enter" /\ UNCHANGED success
    /\ UNCHANGED <<solver_type, run, ret, vertices, neighbors, run_data, probe, original_grid>>

\* entry of backtrack_solve, lines 42-47
SimpleEnter ==
    /\ pc = "enter" /\ solver_type = "simple"
    /\ LET empty_cell == find_next_empty_cell(Grid)
       IN IF empty_cell = <<>>
          THEN /\ ret' = TRUE /\ pc' = "ret"
               /\ nodes_explored' = explored_at_entry(nodes_explored, empty_cell)
               /\ UNCHANGED stack
          ELSE /\ nodes_explored' = explored_at_entry(nodes_explored, empty_cell)
               /\ stack' = Append(stack, [row |-> empty_cell[1], col |-> empty_cell[2],
                                          value |-> 1])
               /\ pc' = "loop"
               /\ UNCHANGED ret
    /\ UNCHANGED <<heap, cur, solver_type, run, success, backtrack_count,
                   vertices, neighbors, run_data, probe, original_grid>>

\* one iteration of the for loop, lines 50-56, up to the recursive call
SimpleTry ==
    /\ pc = "loop" /\ solver_type = "simple"
    /\ LET top == stack[Len(stack)]
       IN /\ top.value <= 9
          /\ IF is_valid_placement(Grid, top.row, top.col, top.value)
             THEN /\ heap' = [heap EXCEPT ![cur] = set_cell(Grid, top.row, top.col, top.value)]
                  /\ pc' = "enter"
                  /\ UNCHANGED stack
             ELSE /\ stack' = [stack EXCEPT ![Len(stack)].value = top.value + 1]
                  /\ UNCHANGED <<heap, pc>>
    /\ UNCHANGED <<cur, solver_type, run, ret, success, nodes_explored, backtrack_count,
                   vertices, neighbors, run_data, probe, original_grid>>

\* the for loop is exhausted, line 63
SimpleLoopEnd ==
    /\ pc = "loop" /\ solver_type = "simple"
    /\ stack[Len(stack)].value > 9
    /\ stack' = SubSeq(stack, 1, Len(stack) - 1)
    /\ ret' = FALSE
    /\ pc' = "ret"
    /\ UNCHANGED <<heap, cur, solver_type, run, success, nodes_explored, backtrack_count,
                   vertices, neighbors, run_data, probe, original_grid>>

\* the recursive call returned True, lines 56-57
SimpleReturnTrue ==
    /\ pc = "ret" /\ solver_type = "simple"
    /\ stack # <<>> /\ ret
    /\ stack' = SubSeq(stack, 1, Len(stack) - 1)
    /\ UNCHANGED <<heap, cur, solver_type, run, pc, ret, success, nodes_explored,
                   backtrack_count, vertices, neighbors, run_data, probe, original_grid>>

\* the cell written when a tentative value is undone, with the clearing left out
undo_value_kept(value) == value

\* the cell written when a tentative value is undone, line 60
undo_value(value) == 0

\* the recursive call returned False, lines 59-61
SimpleBacktrack ==
    /\ pc = "ret" /\ solver_type = "simple"
    /\ stack # <<>> /\ ~ret
    /\ LET top == stack[Len(stack)]
       IN /\ heap' = [heap EXCEPT ![cur] = set_cell(Grid, top.row, top.col,
                                                     undo_value(top.value))]
          /\ backtrack_count' = backtrack_count + 1
          /\ stack' = [stack EXCEPT ![Len(stack)].value = top.value + 1]
          /\ pc' = "loop"
    /\ UNCHANGED <<cur, solver_type, run, ret, success, nodes_explored,
                   vertices, neighbors, run_data, probe, original_grid>>

\* backtrack_solve returned to solve, lines 34-37
SimpleFinish ==
    /\ pc = "ret" /\ solver_type = "simple"
    /\ stack = <<>>
    /\ success' = ret
    /\ pc' = "done"
    /\ UNCHANGED <<heap, cur, solver_type, run, stack, ret, nodes_explored,
                   backtrack_count, vertices, neighbors, run_data, probe, original_grid>>

----------------------------------------------------------------------------
(* DSATURSudokuSolver *)

TheGraph == [vertices |-> vertices, neighbors |-> neighbors]

\* dsatur_key with the saturation not negated: the least saturated comes first
dsatur_key_min_saturation(G, v) ==
    << G.vertices[v].saturation,
       0 - Cardinality(G.neighbors[v]),
       Cardinality(get_available_colors(G, v)) >>

\* dsatur_key, lines 167-173
dsatur_key(G, v) ==
    << 0 - G.vertices[v].saturation,
       0 - Cardinality(G.neighbors[v]),
       Cardinality(get_available_colors(G, v)) >>

\* tuple comparison a < b
key_less(a, b) ==
    \/ a[1] < b[1]
    \/ a[1] = b[1] /\ a[2] < b[2]
    \/ a[1] = b[1] /\ a[2] = b[2] /\ a[3] < b[3]

\* min(uncolored, key=dsatur_key) on a graph whose saturations are up to date:
\* the first vertex of the list that no other vertex beats
select_vertex_dsatur(G, uncolored) ==
    LET key(k) == dsatur_key(G, uncolored[k])
        best == CHOOSE k \in 1..Len(uncolored) :
                    /\ \A j \in 1..Len(uncolored) : ~key_less(key(j), key(k))
                    /\ \A j \in 1..(k - 1) : key_less(key(k), key(j))
    IN uncolored[best]

\* every colour 1..9 is tried, available or not
sorted_every_colour(S) == [k \in 1..N |-> k]

\* only the smallest colour is ever tried
sorted_head(S) ==
    IF S = {} THEN <<>> ELSE <<CHOOSE x \in S : \A y \in S : x <= y>>

\* sorted(available_colors)
RECURSIVE sorted(_)
sorted(S) ==
    IF S = {} THEN <<>>
    ELSE LET m == CHOOSE x \in S : \A y \in S : x <= y
         IN <<m>> \o sorted(S \ {m})

is_valid_coloring_local(G, v) ==
    IF G.vertices[v].color = 0 THEN TRUE
    ELSE \A n \in G.neighbors[v] : G.vertices[n].color # G.vertices[v].color

\* the colour left on a vertex whose colour is undone, line 152 (0 stands for None)
undo_color(color) == 0

\* run_solver, lines 57-61, and solve up to the call of dsatur_backtrack
DsaturSolve ==
    /\ pc = "idle" /\ solver_type = "dsatur" /\ run < NumRuns
    /\ LET c == copy(heap, "stored")
           graph == to_graph(c.heap[c.ref])
       IN /\ cur' = c.ref
          /\ heap' = c.heap
          /\ nodes_explored' = 0
          /\ backtrack_count' = 0
          /\ stack' = <<>>
          /\ vertices' = graph.vertices
          /\ neighbors' = graph.neighbors
          /\ IF ~is_valid_coloring(graph)
             THEN /\ pc' = "done" /\ success' = FALSE
             ELSE /\ pc' = "enter" /\ UNCHANGED success
    /\ UNCHANGED <<solver_type, run, ret, run_data, probe, original_grid>>

\* entry of dsatur_backtrack, lines 123-136
DsaturEnter ==
    /\ pc = "enter" /\ solver_type = "dsatur"
    /\ \E uncolored \in {get_uncolored_vertices(TheGraph)} :
          IF uncolored = <<>>
          THEN /\ ret' = is_valid_coloring(TheGraph)
               /\ pc' = "ret"
               /\ UNCHANGED <<stack, nodes_explored, vertices>>
          ELSE \E G \in {update_all_saturations(TheGraph)} :
               \E vertex \in {select_vertex_dsatur(G, uncolored)} :
               LET available_colors == get_available_colors(G, vertex)
               IN /\ vertices' = G.vertices
                  /\ nodes_explored' = nodes_explored + 1
                  /\ IF available_colors = {}
                     THEN /\ ret' = FALSE /\ pc' = "ret"
                          /\ UNCHANGED stack
                     ELSE /\ stack' = Append(stack, [vertex |-> vertex,
                                                     colors |-> sorted(available_colors),
                                                     idx |-> 1])
                          /\ pc' = "loop"
                          /\ UNCHANGED ret
    /\ UNCHANGED <<heap, cur, solver_type, run, success, backtrack_count,
                   neighbors, run_data, probe, original_grid>>

\* one iteration of the for loop, lines 138-148, up to the recursive call
DsaturAssign ==
    /\ pc = "loop" /\ solver_type = "dsatur"
    /\ LET top == stack[Len(stack)]
       IN /\ top.idx <= Len(top.colors)
          /\ \E G \in {[TheGraph EXCEPT !.vertices[top.vertex].color = top.colors[top.idx]]} :
                IF is_valid_coloring_local(G, top.vertex)
                THEN /\ vertices' = update_all_saturations(G).vertices
                     /\ pc' = "enter"
                     /\ UNCHANGED <<stack, backtrack_count>>
                ELSE /\ vertices' = [G.vertices EXCEPT ![top.vertex].color =
                                                    undo_color(top.colors[top.idx])]
                     /\ backtrack_count' = backtrack_count + 1
                     /\ stack' = [stack EXCEPT ![Len(stack)].idx = top.idx + 1]
                     /\ UNCHANGED pc
    /\ UNCHANGED <<heap, cur, solver_type, run, ret, success, nodes_explored,
                   neighbors, run_data, probe, original_grid>>

\* the for loop is exhausted, line 155
DsaturLoopEnd ==
    /\ pc = "loop" /\ solver_type = "dsatur"
    /\ stack[Len(stack)].idx > Len(stack[Len(stack)].colors)
    /\ stack' = SubSeq(stack, 1, Len(stack) - 1)
    /\ ret' = FALSE
    /\ pc' = "ret"
    /\ UNCHANGED <<heap, cur, solver_type, run, success, nodes_explored, backtrack_count,
                   vertices, neighbors, run_data, probe, original_grid>>

\* the recursive call returned True, lines 148-149
DsaturReturnTrue ==
    /\ pc = "ret" /\ solver_type = "dsatur"
    /\ stack # <<>> /\ ret
    /\ stack' = SubSeq(stack, 1, Len(stack) - 1)
    /\ UNCHANGED <<heap, cur, solver_type, run, pc, ret, success, nodes_explored,
                   backtrack_count, vertices, neighbors, run_data, probe, original_grid>>

\* the recursive call returned False, lines 151-153
DsaturBacktrack ==
    /\ pc = "ret" /\ solver_type = "dsatur"
    /\ stack # <<>> /\ ~ret
    /\ LET top == stack[Len(stack)]
       IN /\ vertices' = [vertices EXCEPT ![top.vertex].color =
                                                undo_color(top.colors[top.idx])]
          /\ backtrack_count' = backtrack_count + 1
          /\ stack' = [stack EXCEPT ![Len(stack)].idx = top.idx + 1]
          /\ pc' = "loop"
    /\ UNCHANGED <<heap, cur, solver_type, run, ret, success, nodes_explored,
                   neighbors, run_data, probe, original_grid>>

\* dsatur_backtrack returned to solve, lines 111-118
DsaturFinish ==
    /\ pc = "ret" /\ solver_type = "dsatur"
    /\ stack = <<>>
    /\ success' = ret
    /\ heap' = IF ret THEN [heap EXCEPT ![cur] = update_from_graph(Grid, TheGraph)]
               ELSE heap
    /\ pc' = "done"
    /\ UNCHANGED <<cur, solver_type, run, stack, ret, nodes_explored,
                   backtrack_count, vertices, neighbors, run_data, probe, original_grid>>

----------------------------------------------------------------------------
(* run_solver *)

NoData == [nodes |-> 0, backtracks |-> 0, success |-> FALSE, grid |-> <<>>]

\* get_stats and the bookkeeping of one run, lines 62-69
RecordRun ==
    /\ pc = "done"
    /\ run_data' = IF run = 0
                   THEN [nodes |-> nodes_explored, backtracks |-> backtrack_count,
                         success |-> success, grid |-> Grid]
                   ELSE run_data
    /\ run' = run + 1
    /\ pc' = "idle"
    /\ UNCHANGED <<heap, cur, solver_type, stack, ret, success, nodes_explored,
                   backtrack_count, vertices, neighbors, probe, original_grid>>

NoProbe == [row |-> 0, col |-> 0, value |-> 0, result |-> FALSE, asked |-> FALSE]

Init ==
    /\ \E n \in 0..MaxBlanks, f \in [1..NumVaried -> 0..2] :
           /\ heap = [stored |-> Puzzle(n, f), copy |-> Puzzle(n, f)]
           /\ original_grid = Puzzle(n, f)
    /\ cur = "stored"
    /\ solver_type \in {"simple", "dsatur"}
    /\ run = 0
    /\ pc = "idle"
    /\ stack = <<>>
    /\ ret = FALSE
    /\ success = FALSE
    /\ nodes_explored = 0
    /\ backtrack_count = 0
    /\ vertices = <<>>
    /\ neighbors = <<>>
    /\ run_data = NoData
    /\ probe = NoProbe

\* a caller asks is_valid_placement about the loaded board
ProbePlacement ==
    /\ pc = "idle" /\ run = 0 /\ ~probe.asked
    /\ \E row \in -1..N, col \in -1..N, value \in 0..(N + 1) :
           probe' = [row |-> row, col |-> col, value |-> value, asked |-> TRUE,
                     result |-> is_valid_placement(heap["stored"], row, col, value)]
    /\ UNCHANGED <<heap, cur, solver_type, run, pc, stack, ret, success, nodes_explored,
                   backtrack_count, vertices, neighbors, run_data, original_grid>>

Next ==
    \/ SimpleSolve
    \/ SimpleEnter
    \/ SimpleTry
    \/ SimpleLoopEnd
    \/ SimpleReturnTrue
    \/ SimpleBacktrack
    \/ SimpleFinish
    \/ DsaturSolve
    \/ DsaturEnter
    \/ DsaturAssign
    \/ DsaturLoopEnd
    \/ DsaturReturnTrue
    \/ DsaturBacktrack
    \/ DsaturFinish
    \/ RecordRun

Spec == Init /\ [][Next]_vars

\* the loaded boards with every cell of BlankOrder blanked, probed by a caller
InitPlacement ==
    /\ Init
    /\ solver_type = "simple"
    /\ \A i \in 1..MaxBlanks :
           original_grid[BlankOrder[i] \div 9][BlankOrder[i] % 9] = 0

\* a step of the search of the running solve call
SearchStep ==
    \/ SimpleEnter \/ SimpleTry \/ SimpleLoopEnd \/ SimpleReturnTrue
    \/ SimpleBacktrack \/ SimpleFinish
    \/ DsaturEnter \/ DsaturAssign \/ DsaturLoopEnd \/ DsaturReturnTrue
    \/ DsaturBacktrack \/ DsaturFinish

\* the interpreter runs on: a search that can take its next step takes it
FairSpec == Spec /\ WF_vars(SearchStep)

SpecPlacement == InitPlacement /\ [][ProbePlacement]_vars

----------------------------------------------------------------------------
(* Vocabulary of the properties *)

Cell(g, id) == g[id \div 9][id % 9]

SameRow(a, b) == a \div 9 = b \div 9
SameCol(a, b) == a % 9 = b % 9
SameBox(a, b) == (a \div 9) \div 3 = (b \div 9) \div 3 /\ (a % 9) \div 3 = (b % 9) \div 3

\* two distinct cells that must not hold the same digit
Peers(a, b) == a # b /\ (SameRow(a, b) \/ SameCol(a, b) \/ SameBox(a, b))

\* two distinct pre-filled cells sharing a row, a column or a box hold the same digit
HasConflict(g) ==
    \E a \in Ids : Cell(g, a) # 0 /\ \E b \in Ids : Peers(a, b) /\ Cell(g, b) = Cell(g, a)

EmptyCells(g) == {id \in Ids : Cell(g, id) = 0}

\* every cell is filled and its value is alone in its row, its column and its box
ExactlyOnceEverywhere(g) ==
    \A a \in Ids :
        /\ Cell(g, a) \in Digits
        /\ Cardinality({b \in Ids : SameRow(a, b) /\ Cell(g, b) = Cell(g, a)}) = 1
        /\ Cardinality({b \in Ids : SameCol(a, b) /\ Cell(g, b) = Cell(g, a)}) = 1
        /\ Cardinality({b \in Ids : SameBox(a, b) /\ Cell(g, b) = Cell(g, a)}) = 1

\* the grids that fill the cells of `cells` in every grid of `gs` without conflict
RECURSIVE FillAll(_, _)
FillAll(gs, cells) ==
    IF cells = {} \/ gs = {} THEN gs
    ELSE LET c == CHOOSE x \in cells : TRUE
             ok(g, v) == \A b \in Ids : Peers(c, b) => Cell(g, b) # v
         IN FillAll({set_cell(p[1], c \div 9, c % 9, p[2]) :
                        p \in {q \in gs \X Digits : ok(q[1], q[2])}},
                    cells \ {c})

\* all valid completions of g: full grids agreeing with every pre-filled cell
Completions(g) == IF HasConflict(g) THEN {} ELSE FillAll({g}, EmptyCells(g))

Done == pc = "done"

----------------------------------------------------------------------------
(* Properties *)

\* C1: whenever either solver returns success, the board is complete and the
\* value of each of the 81 cells appears exactly once in its row, column and box.
SolveSound == (Done /\ success) => ExactlyOnceEverywhere(Grid)

\* a DSATUR search that backtracked and still succeeded
SolveSoundWitness ==
    Done /\ success /\ solver_type = "dsatur" /\ backtrack_count > 0

\* C2: SimpleSolver returns success exactly when the initial board has a valid
\* completion.
SimpleComplete ==
    (Done /\ solver_type = "simple") => (success <=> Completions(original_grid) # {})

\* the search space of a conflict-free board was exhausted
SimpleCompleteWitness ==
    Done /\ solver_type = "simple" /\ ~success /\ backtrack_count > 0

\* C3: DSATURSolver returns success exactly when the initial board has a valid
\* completion; a dead end at one vertex only fails its branch.
DsaturComplete ==
    (Done /\ solver_type = "dsatur") => (success <=> Completions(original_grid) # {})

\* a dead end was met (a colour was undone) on a board reported solved
DsaturCompleteWitness ==
    Done /\ solver_type = "dsatur" /\ success /\ backtrack_count > 0
    /\ nodes_explored > Cardinality(EmptyCells(original_grid))

\* C4: whenever solve returns failure the board's grid equals the grid it had
\* when solve was called.
UnchangedOnFailure == (Done /\ ~success) => Grid = original_grid

\* SimpleSolver wrote to the board, undid it and reported exhaustion
UnchangedOnFailureWitness ==
    Done /\ ~success /\ solver_type = "simple" /\ backtrack_count > 1

\* C5: on a board with two equal pre-filled digits in one row, column or box
\* is_valid() is false and both solvers fail without exploring a node.
InvalidInitialState ==
    (Done /\ HasConflict(original_grid)) =>
        /\ ~is_valid(original_grid).result
        /\ ~success
        /\ nodes_explored = 0
        /\ backtrack_count = 0

InvalidInitialStateWitness ==
    Done /\ HasConflict(original_grid) /\ solver_type = "dsatur" /\ ~success

\* C6: on a valid board with k = 0 empty cells, or k = 1 empty cell that can be
\* filled, both solvers succeed with nodes_explored = k and backtrack_count = 0.
BoundaryStatistics ==
    LET k == Cardinality(EmptyCells(original_grid))
    IN (/\ Done
        /\ k <= 1
        /\ ~HasConflict(original_grid)
        /\ k = 1 => Completions(original_grid) # {}) =>
           (success /\ nodes_explored = k /\ backtrack_count = 0)

BoundaryStatisticsWitness ==
    /\ Done /\ solver_type = "simple" /\ success /\ nodes_explored = 1
    /\ Cardinality(EmptyCells(original_grid)) = 1

ProbeInRange == probe.row \in Idx /\ probe.col \in Idx /\ probe.value \in Digits

ProbeCell == probe.row * 9 + probe.col

\* C8 as stated: out of range gives false; otherwise true iff value appears in
\* no other cell of the row, column and box, the cell itself being excluded.
PlacementExcludesCell ==
    probe.asked =>
        IF ~ProbeInRange THEN ~probe.result
        ELSE probe.result <=>
                 \A b \in Ids : Peers(ProbeCell, b) => Cell(heap["stored"], b) # probe.value

\* C8 amended: out of range gives false; otherwise true iff value appears in no
\* cell of the row, column and box, the cell (row, col) itself included.
PlacementIncludesCell ==
    probe.asked =>
        IF ~ProbeInRange THEN ~probe.result
        ELSE probe.result <=>
                 \A b \in Ids : (b = ProbeCell \/ Peers(ProbeCell, b)) =>
                                    Cell(heap["stored"], b) # probe.value

\* the cell asked about holds the value itself, no other cell of its units does
PlacementIncludesCellWitness ==
    /\ probe.asked /\ ProbeInRange /\ ~probe.result
    /\ Cell(heap["stored"], ProbeCell) = probe.value
    /\ \A b \in Ids : Peers(ProbeCell, b) => Cell(heap["stored"], b) # probe.value

\* C9: is_valid() leaves every cell of the grid as it found it, whether it
\* answers true or stops at the first conflict.
IsValidRestoresGrid ==
    /\ pc \in {"idle", "done"} =>
           \A ref \in DOMAIN heap : is_valid(heap[ref]).grid = heap[ref]
    /\ (Done /\ solver_type = "simple" /\ nodes_explored = 0 /\ ~success) =>
           Grid = original_grid

\* is_valid() stopped at a conflict after clearing and restoring earlier cells
IsValidRestoresGridWitness ==
    /\ Done /\ solver_type = "simple" /\ ~success /\ nodes_explored = 0
    /\ ~is_valid(original_grid).result
    /\ original_grid[0][0] # 0

Uncoloured == {v \in DOMAIN vertices : vertices[v].color = 0 /\ ~vertices[v].isFixed}

\* number of distinct colours among the neighbours of v coloured now
SaturationNow(v) == Cardinality({vertices[n].color : n \in neighbors[v]} \ {0})

\* number of colours of 1..9 that no coloured neighbour of v holds now
AvailableNow(v) == Cardinality(Digits \ {vertices[n].color : n \in neighbors[v]})

\* v comes no later than u in the DSATUR order
SelectionOrder(v, u) ==
    /\ SaturationNow(v) >= SaturationNow(u)
    /\ SaturationNow(v) = SaturationNow(u) =>
          /\ Cardinality(neighbors[v]) >= Cardinality(neighbors[u])
          /\ Cardinality(neighbors[v]) = Cardinality(neighbors[u]) =>
                AvailableNow(v) <= AvailableNow(u)

\* v is a legitimate DSATUR selection in the graph as it is now
GoodSelection(v) ==
    /\ v \in Uncoloured
    /\ \A u \in Uncoloured : SelectionOrder(v, u)

\* C11: at every selection of the DSATUR search, also after a backtrack has
\* un-assigned a colour, the selected vertex is uncoloured, has the greatest
\* saturation among the uncoloured vertices, among those of equal saturation
\* the greatest degree, and among those equal in both the fewest available colours.
DsaturSelection ==
    /\ (solver_type = "dsatur" /\ pc = "enter" /\ Uncoloured # {}) =>
           GoodSelection(select_vertex_dsatur(update_all_saturations(TheGraph),
                                              get_uncolored_vertices(TheGraph)))
    /\ (solver_type = "dsatur" /\ pc = "loop") =>
           GoodSelection(stack[Len(stack)].vertex)

\* a vertex selected after a backtrack, ahead of a less saturated uncoloured vertex
DsaturSelectionWitness ==
    /\ solver_type = "dsatur" /\ pc = "loop" /\ backtrack_count > 0
    /\ stack[Len(stack)].idx = 1
    /\ \E u \in Uncoloured : SaturationNow(u) < SaturationNow(stack[Len(stack)].vertex)

\* the cells pre-filled in the board handed to solve
Givens == Ids \ EmptyCells(original_grid)

\* C12: at every point of either solver's search and in the final board, every
\* cell pre-filled in the board passed to solve holds its initial value, in the
\* grid and as the colour of its vertex; a successful result has no empty cell.
GivensPreserved ==
    /\ \A id \in Givens : Cell(Grid, id) = Cell(original_grid, id)
    /\ (solver_type = "dsatur" /\ vertices # <<>>) =>
           \A id \in Givens : vertices[id].color = Cell(original_grid, id)
    /\ (Done /\ success) => EmptyCells(Grid) = {}

\* SimpleSolver in mid-search, after undoing values, with tentative values on the board
GivensPreservedWitness ==
    /\ solver_type = "simple" /\ pc = "loop" /\ backtrack_count > 0
    /\ Grid # original_grid
    /\ Givens # {}

\* no two adjacent vertices hold the same colour
ProperColouring ==
    \A a \in DOMAIN vertices :
        vertices[a].color # 0 =>
            \A b \in neighbors[a] : vertices[b].color # vertices[a].color

\* C13: once the fixed colours passed the initial check, the colouring is proper
\* at every recursion entry of the DSATUR search, the colour about to be
\* assigned is held by no neighbour (the local re-check passes), and the final
\* whole-graph check, made when no uncoloured vertex remains, returns true.
ProperPartialColouring ==
    /\ (solver_type = "dsatur" /\ pc = "enter") => ProperColouring
    /\ (solver_type = "dsatur" /\ pc = "loop"
        /\ stack[Len(stack)].idx <= Len(stack[Len(stack)].colors)) =>
           LET top == stack[Len(stack)]
           IN \A n \in neighbors[top.vertex] : vertices[n].color # top.colors[top.idx]
    /\ (solver_type = "dsatur" /\ pc = "enter" /\ Uncoloured = {}) =>
           is_valid_coloring(TheGraph)
    /\ (solver_type = "dsatur" /\ pc = "ret" /\ Uncoloured = {}) => ret

\* the final check was made on a colouring completed after colours were undone
ProperPartialColouringWitness ==
    /\ solver_type = "dsatur" /\ pc = "ret" /\ Uncoloured = {} /\ ret
    /\ stack # <<>> /\ backtrack_count > 0

\* the search of the running solve call has not returned yet
Searching == pc \in {"enter", "loop", "ret"}

\* tentative assignments in force: cells, or vertices not yet written back,
\* that were empty in the board handed to solve and hold a value now
InForce ==
    IF solver_type = "simple"
    THEN {id \in Ids : Cell(original_grid, id) = 0 /\ Cell(Grid, id) # 0}
    ELSE {id \in Ids : Cell(original_grid, id) = 0 /\ vertices[id].color # 0}

\* C14: every solve call returns, and while it searches neither the frames of
\* the recursion nor the tentative assignments in force outnumber the
\* initially empty cells, of which there are at most 81.
TerminatesWithinDepth ==
    /\ [](Searching =>
            /\ Len(stack) <= Cardinality(EmptyCells(original_grid))
            /\ Cardinality(InForce) <= Cardinality(EmptyCells(original_grid))
            /\ Cardinality(EmptyCells(original_grid)) <= N * N)
    /\ (Searching ~> Done)

\* SimpleSolver, having backtracked, is as deep as there were empty cells
TerminatesWithinDepthWitness ==
    /\ solver_type = "simple" /\ pc = "enter" /\ backtrack_count > 0
    /\ Len(stack) = Cardinality(EmptyCells(original_grid))
    /\ Len(stack) >= 3

\* C15: on a board without conflicts and with E empty cells, a successful solve
\* ends with backtrack_count = nodes_explored - E, and a solve that exhausted
\* its search (E >= 1) ends with backtrack_count = nodes_explored - 1.
CounterRelation ==
    LET E == Cardinality(EmptyCells(original_grid))
    IN (Done /\ ~HasConflict(original_grid)) =>
           /\ success => backtrack_count = nodes_explored - E
           /\ (~success /\ E >= 1) => backtrack_count = nodes_explored - 1

\* DSATUR exhausted a search that undid an assignment, on a board without conflicts
CounterRelationWitness ==
    /\ Done /\ solver_type = "dsatur" /\ ~success /\ ~HasConflict(original_grid)
    /\ nodes_explored > 1 /\ backtrack_count > 0

\* the grid read as a sequence of 81 digits in row-major order
Flat(g) == [k \in 1..(N * N) |-> Cell(g, k - 1)]

\* a precedes or equals b in lexicographic order
LexLeq(a, b) ==
    \/ a = b
    \/ \E k \in 1..(N * N) : a[k] < b[k] /\ \A j \in 1..(k - 1) : a[j] = b[j]

\* C16: whenever SimpleSolver succeeds, the completed grid, read in row-major
\* order, is the lexicographically smallest valid completion of the initial board.
SimpleLeastSolution ==
    (Done /\ solver_type = "simple" /\ success) =>
        LET completions == Completions(original_grid)
        IN /\ Grid \in completions
           /\ \A c \in completions : LexLeq(Flat(Grid), Flat(c))

\* SimpleSolver succeeded on a board that has other completions
SimpleLeastSolutionWitness ==
    /\ Done /\ solver_type = "simple" /\ success
    /\ Cardinality(Completions(original_grid)) > 1

====
